---- MODULE Spec2Model ----
(***************************************************************************)
(* The compatibility-report route (app/api/compat/route.ts): the POST      *)
(* handler with its timeout + single retry around callGemini, the          *)
(* sanitizer, the two-tier JSON parse and normalizeOutput; and the page    *)
(* that calls it (AnalysisPage): its form state and handleSubmit.          *)
(*                                                                         *)
(* Text is a sequence of one-character strings.  A JavaScript value is a   *)
(* tagged record.  A finite number is the exact decimal n / 10^e.  The     *)
(* five facet keys of the source are Korean words; they are written here   *)
(* in romanised form (jeongseo, sotong, hyeonsil, seongjang, jisok).       *)
(***************************************************************************)
EXTENDS Integers, Sequences, FiniteSets, TLC

VARIABLES
    apiKey,     \* API_KEY is set in the environment
    reqBody,    \* what req.json() yields for this request, or its SyntaxError
    pc,         \* position of the POST handler: "start", "await1", "await2", "done"
    calls,      \* number of callGemini invocations so far
    fetch1,     \* first attempt: "none" | "pending" | "ok" | "failed"
    fetch2,     \* second attempt
    to,         \* first timer:  "unset" | "armed" | "fired" | "cleared"
    to2,        \* second timer
    aborted1,   \* controller.signal.aborted
    aborted2,   \* controller2.signal.aborted
    ret,        \* what the latest settled callGemini returned or threw
    text,       \* the handler's variable text
    parsed,     \* the handler's variable parsed
    resp,       \* the response sent, or NoResp
    manBirth,   \* AnalysisPage: the four required form fields
    womanBirth,
    manMbti,
    womanMbti,
    loading,    \* AnalysisPage: useState(false)
    data,       \* AnalysisPage: useState(null), the report shown
    error,      \* AnalysisPage: useState(null), the message shown
    inflight,   \* report requests the page has sent and not yet seen settle
    submits     \* submit events so far

\* The page's state.
uiVars == <<manBirth, womanBirth, manMbti, womanMbti, loading, data, error,
            inflight, submits>>

\* The route handler's state.
handlerVars == <<apiKey, reqBody, pc, calls, fetch1, fetch2, to, to2, aborted1,
                 aborted2, ret, text, parsed, resp>>

vars == <<apiKey, reqBody, pc, calls, fetch1, fetch2, to, to2, aborted1, aborted2,
          ret, text, parsed, resp, uiVars>>

----------------------------------------------------------------------------
(* Characters *)

Quote == "\""
Backslash == "\\"
WhiteSpace == {" ", "\n", "\t", "\r"}
Digits == {"0", "1", "2", "3", "4", "5", "6", "7", "8", "9"}
Letters ==
    {"a", "b", "c", "d", "e", "f", "g", "h", "i", "j", "k", "l", "m",
     "n", "o", "p", "q", "r", "s", "t", "u", "v", "w", "x", "y", "z",
     "A", "B", "C", "D", "E", "F", "G", "H", "I", "J", "K", "L", "M",
     "N", "O", "P", "Q", "R", "S", "T", "U", "V", "W", "X", "Y", "Z"}

DigitVal(c) ==
    CASE c = "0" -> 0 [] c = "1" -> 1 [] c = "2" -> 2 [] c = "3" -> 3
      [] c = "4" -> 4 [] c = "5" -> 5 [] c = "6" -> 6 [] c = "7" -> 7
      [] c = "8" -> 8 [] c = "9" -> 9

DigitChar(d) ==
    CASE d = 0 -> "0" [] d = 1 -> "1" [] d = 2 -> "2" [] d = 3 -> "3"
      [] d = 4 -> "4" [] d = 5 -> "5" [] d = 6 -> "6" [] d = 7 -> "7"
      [] d = 8 -> "8" [] d = 9 -> "9"

\* The least index >= i of s whose character is in set C, or Len(s) + 1.
FirstIn(s, i, C) ==
    IF i > Len(s) THEN Len(s) + 1
    ELSE CHOOSE j \in i..(Len(s) + 1) :
            /\ j > Len(s) \/ s[j] \in C
            /\ \A k \in i..(j - 1) : s[k] \notin C

\* The least index >= i of s whose character is not in set C, or Len(s) + 1.
FirstNotIn(s, i, C) ==
    IF i > Len(s) THEN Len(s) + 1
    ELSE CHOOSE j \in i..(Len(s) + 1) :
            /\ j > Len(s) \/ s[j] \notin C
            /\ \A k \in i..(j - 1) : s[k] \in C

\* The greatest index of s whose character is not in set C, or 0.
LastNotIn(s, C) ==
    LET S == {j \in 1..Len(s) : s[j] \notin C}
    IN IF S = {} THEN 0 ELSE CHOOSE j \in S : \A k \in S : k <= j

\* String.prototype.trim
Trim(s) == SubSeq(s, FirstNotIn(s, 1, WhiteSpace), LastNotIn(s, WhiteSpace))

\* String.prototype.startsWith / endsWith
StartsWith(s, p) == Len(s) >= Len(p) /\ SubSeq(s, 1, Len(p)) = p
EndsWith(s, p) == Len(s) >= Len(p) /\ SubSeq(s, Len(s) - Len(p) + 1, Len(s)) = p

\* String.prototype.lastIndexOf for one character, 1-based; 0 stands for -1.
LastIndexOf(s, c) ==
    LET S == {j \in 1..Len(s) : s[j] = c}
    IN IF S = {} THEN 0 ELSE CHOOSE j \in S : \A k \in S : k <= j

\* String.prototype.slice(0, n)
Slice0(s, n) == SubSeq(s, 1, IF Len(s) < n THEN Len(s) ELSE n)

RECURSIVE Pow10(_)
Pow10(e) == IF e = 0 THEN 1 ELSE 10 * Pow10(e - 1)

----------------------------------------------------------------------------
(* JavaScript values *)

Undefined == [t |-> "undefined"]
Null == [t |-> "null"]
Bool(b) == [t |-> "bool", b |-> b]
Str(s) == [t |-> "str", s |-> s]
Arr(a) == [t |-> "arr", a |-> a]
\* An object: its members <<key, value>> in insertion order, keys distinct.
Obj(m) == [t |-> "obj", m |-> m]

\* The decimal n / 10^e in lowest form (no trailing zero in the fraction).
RECURSIVE Num(_, _)
Num(n, e) ==
    IF e > 0 /\ n % 10 = 0 THEN Num(n \div 10, e - 1)
    ELSE [t |-> "num", n |-> n, e |-> e]

IntV(n) == Num(n, 0)

\* The result of a numeric coercion: NaN, an infinity, or a finite decimal.
NaN == [k |-> "nan"]
Inf(sg) == [k |-> "inf", sg |-> sg]
Fin(n, e) == [k |-> "fin", n |-> n, e |-> e]

\* Property store: obj[key] = v, keeping the first insertion's position.
Put(m, key, v) ==
    IF \E i \in 1..Len(m) : m[i][1] = key
    THEN [i \in 1..Len(m) |-> IF m[i][1] = key THEN <<key, v>> ELSE m[i]]
    ELSE Append(m, <<key, v>>)

\* Property read v[key] for a key that is no index and no built-in name:
\* undefined unless v is an object that has it.  (On null or undefined the
\* read throws; callers guard it with ?. or || {}.)
Get(v, key) ==
    IF v.t = "obj" /\ \E i \in 1..Len(v.m) : v.m[i][1] = key
    THEN v.m[CHOOSE i \in 1..Len(v.m) : v.m[i][1] = key][2]
    ELSE Undefined

Throws(v) == v.t = "throw"
TypeError == [t |-> "throw", name |-> "TypeError"]

\* v.key without optional chaining: a TypeError on null and undefined.
GetStrict(v, key) ==
    IF v.t \in {"null", "undefined"} THEN TypeError ELSE Get(v, key)

\* v?.key
GetOpt(v, key) ==
    IF v.t \in {"null", "undefined"} THEN Undefined ELSE Get(v, key)

----------------------------------------------------------------------------
(* Coercions: String(v), Number(v), truthiness *)

\* The value of a run of decimal digits.
RECURSIVE DigitsValue(_)
DigitsValue(ds) ==
    IF ds = <<>> THEN 0
    ELSE 10 * DigitsValue(SubSeq(ds, 1, Len(ds) - 1)) + DigitVal(ds[Len(ds)])

\* The decimal digits of a natural number.
RECURSIVE NatToStr(_)
NatToStr(k) ==
    IF k < 10 THEN <<DigitChar(k)>> ELSE Append(NatToStr(k \div 10), DigitChar(k % 10))

\* Number::toString of the finite decimal n / 10^e (plain notation).
NumToStr(n, e) ==
    LET a == IF n < 0 THEN -n ELSE n
        whole == NatToStr(a \div Pow10(e))
        frac == [i \in 1..e |-> DigitChar((a \div Pow10(e - i)) % 10)]
    IN (IF n < 0 THEN <<"-">> ELSE <<>>) \o whole
       \o (IF e > 0 THEN <<".">> \o frac ELSE <<>>)

WUndefined == <<"u", "n", "d", "e", "f", "i", "n", "e", "d">>
WNull == <<"n", "u", "l", "l">>
WTrue == <<"t", "r", "u", "e">>
WFalse == <<"f", "a", "l", "s", "e">>
WInfinity == <<"I", "n", "f", "i", "n", "i", "t", "y">>
WObjectObject ==
    <<"[", "o", "b", "j", "e", "c", "t", " ", "O", "b", "j", "e", "c", "t", "]">>

\* String(v).  Array.prototype.join renders null and undefined elements as "".
RECURSIVE ToStr(_)
ToStr(v) ==
    CASE v.t = "undefined" -> WUndefined
      [] v.t = "null" -> WNull
      [] v.t = "bool" -> IF v.b THEN WTrue ELSE WFalse
      [] v.t = "num" -> NumToStr(v.n, v.e)
      [] v.t = "str" -> v.s
      [] v.t = "obj" -> WObjectObject
      [] v.t = "arr" ->
            LET el(i) == IF v.a[i].t \in {"null", "undefined"} THEN <<>>
                         ELSE ToStr(v.a[i])
                join[i \in 0..Len(v.a)] ==
                    IF i = 0 THEN <<>>
                    ELSE IF i = 1 THEN el(1)
                    ELSE join[i - 1] \o <<",">> \o el(i)
            IN join[Len(v.a)]

\* The number value of a finite coercion result.
NumOfFin(f) == Num(f.n, f.e)

\* x * 10^p for an exponent part p of either sign, as a coercion result.
Scale(n, e, p) == IF p >= 0 THEN Fin(n * Pow10(p), e) ELSE Fin(n, e - p)

\* An optional exponent part at s[i]: [ok, p, i].  No "e": p = 0, i unchanged.
ScanExponent(s, i) ==
    IF i > Len(s) \/ s[i] \notin {"e", "E"} THEN [ok |-> TRUE, p |-> 0, i |-> i]
    ELSE LET sg == IF i + 1 <= Len(s) /\ s[i + 1] \in {"+", "-"} THEN 1 ELSE 0
             d == i + 1 + sg
             z == FirstNotIn(s, d, Digits)
             mag == DigitsValue(SubSeq(s, d, z - 1))
         IN IF z = d THEN [ok |-> FALSE, p |-> 0, i |-> z]
            ELSE [ok |-> TRUE,
                  p |-> IF sg = 1 /\ s[i + 1] = "-" THEN -mag ELSE mag,
                  i |-> z]

\* StringToNumber: Number(s) for a string s.
StringToNumber(s) ==
    LET u == Trim(s)
        sg == IF u # <<>> /\ u[1] \in {"+", "-"} THEN 1 ELSE 0
        neg == sg = 1 /\ u[1] = "-"
        b == sg + 1
        i1 == FirstNotIn(u, b, Digits)
        dot == i1 <= Len(u) /\ u[i1] = "."
        f0 == IF dot THEN i1 + 1 ELSE i1
        i2 == IF dot THEN FirstNotIn(u, f0, Digits) ELSE i1
        whole == SubSeq(u, b, i1 - 1)
        frac == SubSeq(u, f0, i2 - 1)
        x == ScanExponent(u, i2)
        mant == DigitsValue(whole \o frac)
    IN IF u = <<>> THEN Fin(0, 0)
       ELSE IF SubSeq(u, b, Len(u)) = WInfinity THEN Inf(IF neg THEN -1 ELSE 1)
       ELSE IF whole = <<>> /\ frac = <<>> THEN NaN
       ELSE IF ~x.ok \/ x.i # Len(u) + 1 THEN NaN
       ELSE Scale(IF neg THEN -mant ELSE mant, Len(frac), x.p)

\* Number(v)
ToNumber(v) ==
    CASE v.t = "undefined" -> NaN
      [] v.t = "null" -> Fin(0, 0)
      [] v.t = "bool" -> Fin(IF v.b THEN 1 ELSE 0, 0)
      [] v.t = "num" -> Fin(v.n, v.e)
      [] v.t = "str" -> StringToNumber(v.s)
      [] v.t \in {"arr", "obj"} -> StringToNumber(ToStr(v))

\* ToBoolean(v)
Truthy(v) ==
    CASE v.t \in {"undefined", "null"} -> FALSE
      [] v.t = "bool" -> v.b
      [] v.t = "num" -> v.n # 0
      [] v.t = "str" -> v.s # <<>>
      [] v.t \in {"arr", "obj"} -> TRUE

\* a || b
OrElse(a, b) == IF Truthy(a) THEN a ELSE b

\* Math.floor in place of Math.round.
MathFloor(n, e) == n \div Pow10(e)

\* Math.round of a finite decimal: floor(x + 1/2).
MathRound(n, e) == (2 * n + Pow10(e)) \div (2 * Pow10(e))

----------------------------------------------------------------------------
(* normalizeOutput *)

KScore == <<"s", "c", "o", "r", "e">>
KFacets == <<"f", "a", "c", "e", "t", "s">>
KSummary == <<"s", "u", "m", "m", "a", "r", "y">>
KInsights == <<"i", "n", "s", "i", "g", "h", "t", "s">>
KOneliner == <<"o", "n", "e", "l", "i", "n", "e", "r">>
KExplanation == <<"e", "x", "p", "l", "a", "n", "a", "t", "i", "o", "n">>
KJeongseo == <<"j", "e", "o", "n", "g", "s", "e", "o">>
KSotong == <<"s", "o", "t", "o", "n", "g">>
KHyeonsil == <<"h", "y", "e", "o", "n", "s", "i", "l">>
KSeongjang == <<"s", "e", "o", "n", "g", "j", "a", "n", "g">>
KJisok == <<"j", "i", "s", "o", "k">>

\* The five facet names, in the order the source writes them.
FacetKeys == <<KJeongseo, KSotong, KHyeonsil, KSeongjang, KJisok>>

ScoreDefault == 80
ScoreMin == 30
ScoreMax == 98
FacetMin == 0
FacetMax == 100
SummaryMax == 400
OnelinerMax == 80
InsightsMax == 3

\* The per-facet defaults.
FacetDefault(k) ==
    CASE k = KJeongseo -> 80
      [] k = KSotong -> 80
      [] k = KHyeonsil -> 70
      [] k = KSeongjang -> 90
      [] k = KJisok -> 80

\* Clamp with the lower bound forgotten: Math.min(max, r).
ClampNoMin(r, min, max) == IF max < r THEN max ELSE r

\* Math.max(min, Math.min(max, r)) for r an integer.
Clamp(r, min, max) ==
    LET lo(a, b) == IF a < b THEN a ELSE b
        hi(a, b) == IF a > b THEN a ELSE b
    IN hi(min, lo(max, r))

\* const num = (v, d, min=0, max=100) => ...,
\* with n = Number(v): the default on NaN, else the rounded value clamped.
NumOf(n, d, min, max) ==
    CASE n.k = "nan" -> d
      [] n.k = "inf" -> IF n.sg > 0 THEN max ELSE min
      [] n.k = "fin" -> Clamp(MathRound(n.n, n.e), min, max)

num(v, d, min, max) == NumOf(ToNumber(v), d, min, max)

\* const score = num(parsed?.score, 80, 30, 98)
NormScore(p) == num(GetOpt(p, KScore), ScoreDefault, ScoreMin, ScoreMax)

\* num(facets[k], d)
NormFacet(facets, k) == num(GetStrict(facets, k), FacetDefault(k), FacetMin, FacetMax)

\* The summary sliced from index 1 instead of 0: slice(1, 400).
NormSummaryFromOne(p) ==
    LET s == Slice0(ToStr(OrElse(GetOpt(p, KSummary), Str(<<>>))), SummaryMax)
    IN SubSeq(s, 2, Len(s))

\* String(parsed?.summary || '').slice(0, 400)
NormSummary(p) == Slice0(ToStr(OrElse(GetOpt(p, KSummary), Str(<<>>))), SummaryMax)

\* String(parsed?.oneliner || '').slice(0, 80)
NormOneliner(p) == Slice0(ToStr(OrElse(GetOpt(p, KOneliner), Str(<<>>))), OnelinerMax)

\* Array.isArray(parsed?.insights) ? parsed.insights.slice(0,3).map(String) : []
NormInsights(p) ==
    LET a == GetOpt(p, KInsights)
    IN IF a.t = "arr"
       THEN LET b == GetStrict(p, KInsights).a
                n == IF Len(b) < InsightsMax THEN Len(b) ELSE InsightsMax
            IN [i \in 1..n |-> Str(ToStr(b[i]))]
       ELSE <<>>

\* String(explanation[k] || '')
NormExplain(explanation, k) ==
    ToStr(OrElse(GetStrict(explanation, k), Str(<<>>)))

\* function normalizeOutput(parsed): the record returned, or the TypeError a
\* property read of null or undefined throws.
normalizeOutput(p) ==
    LET facets == OrElse(GetOpt(p, KFacets), Obj(<<>>))
        explanation == OrElse(GetOpt(p, KExplanation), Obj(<<>>))
    IN IF \/ \E i \in 1..5 : Throws(GetStrict(facets, FacetKeys[i]))
          \/ \E i \in 1..5 : Throws(GetStrict(explanation, FacetKeys[i]))
       THEN TypeError
       ELSE Obj(<< <<KScore, IntV(NormScore(p))>>,
                   <<KFacets,
                     Obj([i \in 1..5 |->
                            <<FacetKeys[i], IntV(NormFacet(facets, FacetKeys[i]))>>])>>,
                   <<KSummary, Str(NormSummary(p))>>,
                   <<KInsights, Arr(NormInsights(p))>>,
                   <<KOneliner, Str(NormOneliner(p))>>,
                   <<KExplanation,
                     Obj([i \in 1..5 |->
                            <<FacetKeys[i], Str(NormExplain(explanation, FacetKeys[i]))>>])>> >>)

----------------------------------------------------------------------------
(* JSON.parse and JSON.stringify *)

\* A parse step's result: the value and the index after it, or the index at
\* which the text stops being JSON.
POk(v, i) == [ok |-> TRUE, v |-> v, i |-> i]
PFail(i) == [ok |-> FALSE, v |-> Undefined, i |-> i]

\* Characters that may not appear raw inside a JSON string.
ControlChars == {"\n", "\t", "\r"}

\* The character an escape \c stands for.
Unescape(c) ==
    CASE c = "n" -> "\n" [] c = "t" -> "\t" [] c = "r" -> "\r" [] OTHER -> c

\* s[j], or the empty string past the end of s.
Char(s, j) == IF j <= Len(s) THEN s[j] ELSE ""

\* s[k] is the second character of an escape of the string that starts at
\* s[i]: an odd number r of backslashes stands directly before it.
Escaped(s, i, k) ==
    (CHOOSE r \in 0..(k - i) :
        /\ \A m \in (k - r)..(k - 1) : s[m] = Backslash
        /\ r = k - i \/ s[k - r - 1] # Backslash) % 2 = 1

\* s[k] ends the string that starts at s[i]: a quote that no backslash escapes.
Closes(s, i, k) == s[k] = Quote /\ ~Escaped(s, i, k)

\* s[k] may not stand in the string that starts at s[i]: a raw control
\* character, or a backslash that starts no escape.
Malformed(s, i, k) ==
    /\ ~Escaped(s, i, k)
    /\ \/ s[k] \in ControlChars
       \/ /\ s[k] = Backslash
          /\ Char(s, k + 1) \notin {Quote, Backslash, "/", "n", "t", "r"}

\* The characters at the indices kept of the string that starts at s[i]: an
\* escaped one stands for the character its escape names.
Decoded(s, i, kept) ==
    [n \in 1..Len(kept) |->
        IF Escaped(s, i, kept[n]) THEN Unescape(s[kept[n]]) ELSE s[kept[n]]]

\* A string's characters from s[i] (after the opening quote) to its closing
\* quote at s[q], or to the end of s at q = Len(s) + 1, escapes decoded and
\* appended to acc.
ParseStringAt(s, i, acc, q) ==
    CASE \E k \in i..(q - 1) : Malformed(s, i, k) ->
            PFail(CHOOSE k \in i..(q - 1) :
                    /\ Malformed(s, i, k)
                    /\ \A m \in i..(k - 1) : ~Malformed(s, i, m))
      [] q > Len(s) /\ \A k \in i..(q - 1) : ~Malformed(s, i, k) -> PFail(q)
      [] OTHER ->
            POk(Str(acc \o Decoded(s, i,
                                   SelectSeq([k \in 1..(q - i) |-> i + k - 1],
                                             LAMBDA k : s[k] # Backslash
                                                        \/ Escaped(s, i, k)))),
                q + 1)

ParseString(s, i, acc) ==
    ParseStringAt(s, i, acc,
                  IF i > Len(s) THEN Len(s) + 1
                  ELSE CHOOSE q \in i..(Len(s) + 1) :
                          /\ q > Len(s) \/ Closes(s, i, q)
                          /\ \A k \in i..(q - 1) : ~Closes(s, i, k))

\* A JSON number at s[i]: -? (0 | [1-9][0-9]*) (. [0-9]+)? ([eE] [+-]? [0-9]+)?
\* The whole part runs from b to i1 - 1, the fraction (if dot) from i1 + 1 to
\* i2 - 1, and x is the exponent part scanned at i2.
ParseNumber(s, i) ==
    LET neg == s[i] = "-"
        b == IF neg THEN i + 1 ELSE i
        i1 == FirstNotIn(s, b, Digits)
        dot == Char(s, i1) = "."
        i2 == IF dot THEN FirstNotIn(s, i1 + 1, Digits) ELSE i1
        x == ScanExponent(s, i2)
    IN CASE i1 = b -> PFail(b)
         [] i1 - b > 1 /\ s[b] = "0" -> PFail(b + 1)
         [] i1 > b /\ ~(i1 - b > 1 /\ s[b] = "0") /\ dot /\ i2 = i1 + 1 -> PFail(i2)
         [] i1 > b /\ ~(i1 - b > 1 /\ s[b] = "0") /\ ~(dot /\ i2 = i1 + 1) /\ ~x.ok ->
               PFail(x.i)
         [] OTHER ->
               POk(NumOfFin(Scale((IF neg THEN -1 ELSE 1)
                                    * DigitsValue(SubSeq(s, b, i1 - 1)
                                                  \o (IF dot THEN SubSeq(s, i1 + 1, i2 - 1)
                                                      ELSE <<>>)),
                                  (IF dot THEN i2 - i1 - 1 ELSE 0), x.p)),
                   x.i)

\* A literal word w at s[i].
ParseWord(s, i, w, v) ==
    IF SubSeq(s, i, i + Len(w) - 1) = w /\ i + Len(w) - 1 <= Len(s)
    THEN POk(v, i + Len(w))
    ELSE PFail(i)

RECURSIVE ParseValue(_, _)
RECURSIVE ParseMember(_, _)
RECURSIVE ParseElement(_, _)

\* The index of the first character at or after s[i] that is not whitespace.
AfterWs(s, i) == FirstNotIn(s, i, WhiteSpace)

\* A member's key: a string at s[j].
MemberKey(s, j) ==
    IF Char(s, j) # Quote THEN PFail(j) ELSE ParseString(s, j + 1, <<>>)

\* A member's value v, parsed after the colon, is stored under key; then }
\* ends the object and a comma starts the next member.
MemberValue(s, acc, key, v) ==
    CASE ~v.ok -> v
      [] v.ok /\ Char(s, AfterWs(s, v.i)) = "}" ->
            POk(Obj(Put(acc, key, v.v)), AfterWs(s, v.i) + 1)
      [] v.ok /\ Char(s, AfterWs(s, v.i)) = "," ->
            ParseMember(s, [acc |-> Put(acc, key, v.v),
                            k |-> MemberKey(s, AfterWs(s, AfterWs(s, v.i) + 1))])
      [] OTHER -> PFail(AfterWs(s, v.i))

\* One member of an object: m.acc holds the members before it and m.k is its
\* key as parsed; the colon, then the value.
ParseMember(s, m) ==
    CASE ~m.k.ok -> m.k
      [] m.k.ok /\ Char(s, AfterWs(s, m.k.i)) # ":" -> PFail(AfterWs(s, m.k.i))
      [] OTHER -> MemberValue(s, m.acc, m.k.v.s,
                              ParseValue(s, AfterWs(s, m.k.i) + 1))

\* One element of an array: e.acc holds the elements before it and e.v is the
\* element as parsed; then ] ends the array and a comma starts the next one.
ParseElement(s, e) ==
    CASE ~e.v.ok -> e.v
      [] e.v.ok /\ Char(s, AfterWs(s, e.v.i)) = "]" ->
            POk(Arr(Append(e.acc, e.v.v)), AfterWs(s, e.v.i) + 1)
      [] e.v.ok /\ Char(s, AfterWs(s, e.v.i)) = "," ->
            ParseElement(s, [acc |-> Append(e.acc, e.v.v),
                             v |-> ParseValue(s, AfterWs(s, e.v.i) + 1)])
      [] OTHER -> PFail(AfterWs(s, e.v.i))

\* s[j] opens a container that closes at once: {} or [].
EmptyAt(s, j, open, close) ==
    Char(s, j) = open /\ Char(s, AfterWs(s, j + 1)) = close

\* A JSON value that starts at s[j].
ValueAt(s, j) ==
    CASE EmptyAt(s, j, "{", "}") -> POk(Obj(<<>>), AfterWs(s, j + 1) + 1)
      [] EmptyAt(s, j, "[", "]") -> POk(Arr(<<>>), AfterWs(s, j + 1) + 1)
      [] Char(s, j) = "{" /\ ~EmptyAt(s, j, "{", "}") ->
            ParseMember(s, [acc |-> <<>>, k |-> MemberKey(s, AfterWs(s, j + 1))])
      [] Char(s, j) = "[" /\ ~EmptyAt(s, j, "[", "]") ->
            ParseElement(s, [acc |-> <<>>, v |-> ParseValue(s, j + 1)])
      [] Char(s, j) = Quote -> ParseString(s, j + 1, <<>>)
      [] Char(s, j) \in Digits \cup {"-"} -> ParseNumber(s, j)
      [] Char(s, j) = "t" -> ParseWord(s, j, WTrue, Bool(TRUE))
      [] Char(s, j) = "f" -> ParseWord(s, j, WFalse, Bool(FALSE))
      [] Char(s, j) = "n" -> ParseWord(s, j, WNull, Null)
      [] OTHER -> PFail(j)

\* A JSON value at or after s[i], leading whitespace skipped.
ParseValue(s, i) == ValueAt(s, AfterWs(s, i))

\* Nothing but whitespace may follow the value r: z is the index after it.
WholeText(s, r, z) == IF z <= Len(s) THEN PFail(z) ELSE r

ParsedValue(s, r) ==
    IF r.ok THEN WholeText(s, r, FirstNotIn(s, r.i, WhiteSpace)) ELSE r

\* JSON.parse(s): [ok |-> TRUE, v |-> value], or ok = FALSE with the index i
\* of the offending character (Len(s) + 1: the text ended too early).
JsonParse(s) == ParsedValue(s, ParseValue(s, 1))

\* The message of the SyntaxError JSON.parse throws: it names the offending
\* character and its position, or reports the unexpected end of the input.
SyntaxErrorMessage(s, i) ==
    IF i > Len(s) THEN <<"Unexpected end of JSON input">>
    ELSE <<"Unexpected token ", s[i], " in JSON at position ">> \o NatToStr(i - 1)

\* The characters s[lo..hi] of a string as they stand in JSON text: quote,
\* backslash and control characters escaped.
RECURSIVE QuoteString(_, _, _)
QuoteString(s, lo, hi) ==
    IF \A k \in lo..hi : s[k] \notin {Quote, Backslash} \cup ControlChars
    THEN SubSeq(s, lo, hi)
    ELSE IF lo = hi
    THEN <<Backslash, CASE s[lo] = "\n" -> "n" [] s[lo] = "\t" -> "t"
                        [] s[lo] = "\r" -> "r" [] OTHER -> s[lo]>>
    ELSE QuoteString(s, lo, (lo + hi) \div 2) \o QuoteString(s, (lo + hi) \div 2 + 1, hi)

\* JSON.stringify(v) for a value JSON.parse can yield.
RECURSIVE JsonStringify(_)
JsonStringify(v) ==
    CASE v.t = "null" -> WNull
      [] v.t = "bool" -> IF v.b THEN WTrue ELSE WFalse
      [] v.t = "num" -> NumToStr(v.n, v.e)
      [] v.t = "str" -> <<Quote>> \o QuoteString(v.s, 1, Len(v.s)) \o <<Quote>>
      [] v.t = "arr" ->
            LET join[i \in 0..Len(v.a)] ==
                    IF i = 0 THEN <<>>
                    ELSE (IF i = 1 THEN <<>> ELSE join[i - 1] \o <<",">>)
                         \o JsonStringify(v.a[i])
            IN <<"[">> \o join[Len(v.a)] \o <<"]">>
      [] v.t = "obj" ->
            LET mem(i) == <<Quote>> \o QuoteString(v.m[i][1], 1, Len(v.m[i][1])) \o <<Quote, ":">>
                          \o JsonStringify(v.m[i][2])
                join[i \in 0..Len(v.m)] ==
                    IF i = 0 THEN <<>>
                    ELSE (IF i = 1 THEN <<>> ELSE join[i - 1] \o <<",">>) \o mem(i)
            IN <<"{">> \o join[Len(v.m)] \o <<"}">>

----------------------------------------------------------------------------
(* sanitizeJson and the fallback match *)

\* The backquote character (a TLA+ string cannot hold it).
Backquote == "BQ"

\* The code fence: three backquotes.
Fence == <<Backquote, Backquote, Backquote>>

\* The opening fence removed without its language tag and newline.
StripFenceOnly(t) == SubSeq(t, Len(Fence) + 1, Len(t))

\* t.replace of the opening fence, for t that starts with it: the fence, any
\* run of ASCII letters (flag i), and one newline if it follows.
StripOpeningFence(t) ==
    LET a == FirstNotIn(t, Len(Fence) + 1, Letters)
        b == IF a <= Len(t) /\ t[a] = "\n" THEN a + 1 ELSE a
    IN SubSeq(t, b, Len(t))

\* function sanitizeJson(text)
sanitizeJson(txt) ==
    LET t0 == Trim(txt)
        t1 == IF StartsWith(t0, Fence) THEN StripOpeningFence(t0) ELSE t0
        t2 == IF EndsWith(t1, Fence) THEN SubSeq(t1, 1, Len(t1) - Len(Fence)) ELSE t1
        lastObj == LastIndexOf(t2, "}")
    IN IF lastObj # 0 THEN SubSeq(t2, 1, lastObj) ELSE t2

\* The brace block taken from the last opening brace instead of the first.
BraceMatchLast(raw) ==
    LET i == LastIndexOf(raw, "{")
    IN IF raw # <<>> /\ raw[Len(raw)] = "}" /\ i # 0
       THEN [found |-> TRUE, m |-> SubSeq(raw, i, Len(raw))]
       ELSE [found |-> FALSE, m |-> <<>>]

\* raw.match of the brace-block pattern (an opening brace, anything, a closing
\* brace at the end of the input): the match m[0] runs from the first opening
\* brace to the end of a text that ends with a closing brace; else no match.
BraceMatch(raw) ==
    LET i == FirstIn(raw, 1, {"{"})
    IN IF raw # <<>> /\ raw[Len(raw)] = "}" /\ i < Len(raw)
       THEN [found |-> TRUE, m |-> SubSeq(raw, i, Len(raw))]
       ELSE [found |-> FALSE, m |-> <<>>]

----------------------------------------------------------------------------
(* callGemini *)

KCandidates == <<"c", "a", "n", "d", "i", "d", "a", "t", "e", "s">>
KContent == <<"c", "o", "n", "t", "e", "n", "t">>
KParts == <<"p", "a", "r", "t", "s">>
KText == <<"t", "e", "x", "t">>
KInlineData == <<"i", "n", "l", "i", "n", "e", "_", "d", "a", "t", "a">>
KData == <<"d", "a", "t", "a">>

\* v?.[0]
FirstOpt(v) ==
    CASE v.t = "arr" /\ Len(v.a) > 0 -> v.a[1]
      [] v.t = "str" /\ Len(v.s) > 0 -> Str(<<v.s[1]>>)
      [] OTHER -> Undefined

\* a ?? b
Nullish(a, b) == IF a.t \in {"null", "undefined"} THEN b ELSE a

\* What a settled callGemini hands its caller: the string returned, or the
\* message of the Error thrown.
Returned(txt) == [ok |-> TRUE, text |-> txt, msg |-> <<>>]
Thrown(msg) == [ok |-> FALSE, text |-> <<>>, msg |-> msg]
NoRet == [ok |-> FALSE, text |-> <<>>, msg |-> <<"none">>]

MsgFetchFailed == <<"fetch failed">>
MsgAborted == <<"This operation was aborted">>

\* What fetch settles with: a rejection (network failure), or a response
\* with a status and a body text.
FetchRejected == [kind |-> "reject", status |-> 0, body |-> <<>>]
FetchResponse(status, body) == [kind |-> "response", status |-> status, body |-> body]

\* res.ok
ResOk(r) == r.status \in 200..299

\* throw new Error(`Gemini ${res.status}: ${msg}`)
GeminiError(r) == <<"Gemini ">> \o NatToStr(r.status) \o <<": ">> \o r.body

\* json?.candidates?.[0]?.content?.parts?.[0]
FirstPart(json) ==
    FirstOpt(GetOpt(GetOpt(FirstOpt(GetOpt(json, KCandidates)), KContent), KParts))

\* The text payload of the provider's envelope, String(text || '').
EnvelopeText(json) ==
    LET part == FirstPart(json)
        t == Nullish(GetOpt(part, KText),
                     Nullish(GetOpt(GetOpt(part, KInlineData), KData), Str(<<>>)))
    IN ToStr(OrElse(t, Str(<<>>)))

\* const json = await res.json() gave j (or threw); then the text payload.
FromEnvelope(body, j) ==
    IF ~j.ok THEN Thrown(SyntaxErrorMessage(body, j.i)) ELSE Returned(EnvelopeText(j.v))

\* async function callGemini(payload, signal), for a call whose fetch settles
\* with r and whose signal is not aborted.
callGemini(r) ==
    IF r.kind = "reject" THEN Thrown(MsgFetchFailed)
    ELSE IF ~ResOk(r) THEN Thrown(GeminiError(r))
    ELSE FromEnvelope(r.body, JsonParse(r.body))

----------------------------------------------------------------------------
(* POST: the stages after the text is in hand *)

\* The literal messages of the route.
MsgNoKey == <<"API key is not set">>
MsgMissing == <<"required input (birth date / MBTI) is missing">>
MsgParseFail == <<"JSON parse failed">>
MsgServerError == <<"server error">>
\* Messages of the runtime's own errors.
MsgBodySyntax == <<"Unexpected end of JSON input">>
MsgNullRead == <<"Cannot read properties of null (reading 'topic')">>
MsgNormalize == <<"Cannot read properties of undefined">>

NoResp == [status |-> 0, error |-> FALSE, detail |-> <<>>, body |-> Undefined]
\* NextResponse.json(body)
RespOk(body) == [status |-> 200, error |-> FALSE, detail |-> <<>>, body |-> body]
\* NextResponse.json({ error: true, detail }, { status })
RespError(status, detail) ==
    [status |-> status, error |-> TRUE, detail |-> detail, body |-> Undefined]

\* catch (err) { ... detail: err?.message || (the server-error literal) ... 500 }
CatchAll(msg) == RespError(500, IF msg = <<>> THEN MsgServerError ELSE msg)

\* What a parse tier yields: the value, or the message of the error thrown.
Parsed(v) == [ok |-> TRUE, v |-> v, msg |-> <<>>]
ParseThrew(msg) == [ok |-> FALSE, v |-> Undefined, msg |-> msg]

\* parsed = JSON.parse(m[0]), with r what JSON.parse made of m0.
MatchParsed(m0, r) ==
    IF r.ok THEN Parsed(r.v) ELSE ParseThrew(SyntaxErrorMessage(m0, r.i))

\* if (!m) throw new Error(the parse-failure literal), else parse m[0].
MatchTier(m) ==
    IF ~m.found THEN ParseThrew(MsgParseFail) ELSE MatchParsed(m.m, JsonParse(m.m))

\* The fallback tier on raw: match the brace block, then JSON.parse(m[0]).
FallbackParse(raw) == MatchTier(BraceMatch(raw))

\* catch { ...fallback... }, with r what the strict JSON.parse(raw) gave.
StrictTier(raw, r) == IF r.ok THEN Parsed(r.v) ELSE FallbackParse(raw)

\* try { parsed = JSON.parse(raw) } catch { ...fallback... }
ParseTiers(raw) == StrictTier(raw, JsonParse(raw))

\* return NextResponse.json(normalizeOutput(parsed)), with n its result.
Normalized(v, n) ==
    [parsed |-> v, resp |-> IF Throws(n) THEN CatchAll(MsgNormalize) ELSE RespOk(n)]

\* The parse tiers gave p.
AfterParse(p) ==
    IF ~p.ok THEN [parsed |-> Undefined, resp |-> CatchAll(p.msg)]
    ELSE Normalized(p.v, normalizeOutput(p.v))

\* From const raw = sanitizeJson(text) to the response.
Finish(txt) == AfterParse(ParseTiers(sanitizeJson(txt)))

\* clearTimeout(t)
ClearTimeout(t) == IF t = "armed" THEN "cleared" ELSE t

----------------------------------------------------------------------------
(* Inputs: the request, and what the provider may answer *)

MaxPrefix == 2      \* longest conversational prefix
MaxTag == 2         \* longest language tag after the opening fence
MaxWs == 1          \* longest run of whitespace around a fenced block
MaxOver == 3        \* how far numbers range beyond [0, 100]
MaxExtra == 1       \* how far strings and lists range beyond their caps

SeqsUpTo(A, n) == UNION {[1..k -> A] : k \in 0..n}

KTopic == <<"t", "o", "p", "i", "c">>
KManBirth == <<"m", "a", "n", "_", "b", "i", "r", "t", "h">>
KWomanBirth == <<"w", "o", "m", "a", "n", "_", "b", "i", "r", "t", "h">>
KManMbti == <<"m", "a", "n", "_", "m", "b", "t", "i">>
KWomanMbti == <<"w", "o", "m", "a", "n", "_", "m", "b", "t", "i">>
RequiredKeys == {KManBirth, KWomanBirth, KManMbti, KWomanMbti}

\* A request field: absent, null, empty, or given.
FieldValues == {Undefined, Null, Str(<<>>), Str(<<"x">>)}

MkRequest(mb, wb, mm, wm) ==
    Obj(SelectSeq(<< <<KManBirth, mb>>, <<KWomanBirth, wb>>,
                     <<KManMbti, mm>>, <<KWomanMbti, wm>> >>,
                  LAMBDA m : m[2] # Undefined))

\* req.json() throws on a body that is not JSON.
BodyInvalid == [t |-> "throw", name |-> "SyntaxError"]

RequestBodies ==
    {BodyInvalid, Null, IntV(5)}
    \cup {MkRequest(mb, wb, mm, wm) : mb \in FieldValues, wb \in FieldValues,
                                      mm \in FieldValues, wm \in FieldValues}

\* The validation with the two MBTI fields left out.
MissingBirthOnly(b) == \E k \in {KManBirth, KWomanBirth} : ~Truthy(GetStrict(b, k))

\* Some required field is missing or empty: the condition of the 400.
MissingRequired(b) == \E k \in RequiredKeys : ~Truthy(GetStrict(b, k))

Rep(c, n) == [i \in 1..n |-> c]

\* Field values of every type: what a model may put where a number belongs.
ScalarValues ==
    {Null, Bool(TRUE), Bool(FALSE), Obj(<<>>), Obj(<< <<KScore, IntV(50)>> >>),
     Arr(<<>>), Arr(<<IntV(55)>>), Arr(<<Str(<<"6", "1">>)>>), Arr(<<IntV(1), IntV(2)>>),
     Str(<<>>), Str(<<" ">>), Str(<<"a", "b", "c">>), Str(<<"4", "2">>),
     Str(<<" ", "7", ".", "5", "\n">>), Str(<<"-", "3">>), Str(<<"+", "5">>),
     Str(<<"1", "2", "a">>), Str(<<"1", "e", "2">>), Str(<<".", "5">>),
     Str(WInfinity), Str(<<"-">> \o WInfinity), Str(WNull), Str(WTrue)}

\* The numbers k/2 from -MaxOver to 100 + MaxOver.
NumberValues == {Num(5 * k, 1) : k \in (-2 * MaxOver)..(2 * (FacetMax + MaxOver))}

FacetsOf(v) == Obj([i \in 1..5 |-> <<FacetKeys[i], v>>])

\* Reports whose score and facets all hold the same value v.
NumericReports ==
    {Obj(<< <<KScore, v>>, <<KFacets, FacetsOf(v)>> >>) : v \in NumberValues \cup ScalarValues}

\* Values for summary and oneliner: around both caps, and of other types.
TextValues ==
    {Str(Rep("a", n)) : n \in {0, 1} \cup ((OnelinerMax - 1)..(OnelinerMax + MaxExtra))
                                     \cup ((SummaryMax - 1)..(SummaryMax + MaxExtra))}
    \cup {Null, IntV(0), IntV(7), Num(-25, 1), Bool(TRUE), Bool(FALSE),
          Arr(<<IntV(1), Null, Str(<<"b">>)>>), Obj(<<>>)}

TextReports ==
    {Obj(<< <<KSummary, v>>, <<KOneliner, v>> >>) : v \in TextValues}

InsightElems == <<Str(<<"t", "i", "p">>), IntV(2), Null, Obj(<<>>), Bool(TRUE),
                  Arr(<<IntV(1), IntV(2)>>), Str(<<>>)>>

InsightsValues ==
    {Arr(SubSeq(InsightElems, a, b)) : a \in 1..Len(InsightElems),
                                       b \in 0..Len(InsightElems)}
    \cup {Arr(Rep(Str(<<"x">>), n)) : n \in 0..(InsightsMax + MaxExtra)}
    \cup {Null, Str(<<"a", "b">>), IntV(3), Obj(<<>>)}

InsightsReports == {Obj(<< <<KInsights, v>> >>) : v \in InsightsValues}

ExplanationValues ==
    {FacetsOf(v) : v \in {Null, IntV(0), IntV(4), Bool(FALSE), Str(<<>>), Str(<<"o", "k">>),
                          Arr(<<>>), Obj(<<>>)}}
    \cup {Null, IntV(5), Str(<<"x">>), Arr(<<>>), Obj(<<>>),
          Obj(<< <<KSotong, Str(<<"s">>)>>, <<KTopic, Str(<<"z">>)>> >>)}

ExplanationReports == {Obj(<< <<KExplanation, v>> >>) : v \in ExplanationValues}

MixedReports ==
    {Null, IntV(5), Str(<<"a", "b", "c">>), Bool(TRUE), Arr(<<>>), Arr(<<IntV(1)>>),
     Obj(<<>>),
     Obj(<< <<KFacets, Null>>, <<KExplanation, Null>> >>),
     Obj(<< <<KFacets, IntV(5)>>, <<KExplanation, Bool(TRUE)>> >>),
     Obj(<< <<KFacets, Str(<<"x">>)>>, <<KScore, IntV(64)>> >>),
     Obj(<< <<KFacets, Obj(<< <<KJeongseo, IntV(1)>>, <<KSotong, Str(<<"x">>)>>,
                              <<KHyeonsil, Null>>, <<KSeongjang, IntV(200)>>,
                              <<KTopic, IntV(9)>> >>)>> >>),
     Obj(<< <<KScore, IntV(82)>>,
            <<KFacets, Obj(<< <<KJeongseo, IntV(78)>>, <<KSotong, IntV(85)>>,
                              <<KHyeonsil, IntV(72)>>, <<KSeongjang, IntV(88)>>,
                              <<KJisok, IntV(80)>> >>)>>,
            <<KSummary, Str(<<"o", "k", ".">>)>>,
            <<KInsights, Arr(<<Str(<<"a">>), Str(<<"b">>), Str(<<"c">>)>>)>>,
            <<KOneliner, Str(<<"g", "o">>)>>,
            <<KExplanation, FacetsOf(Str(<<"e">>))>> >>)}

\* The values the model's text may decode to.
ReportValues ==
    NumericReports \cup TextReports \cup InsightsReports \cup ExplanationReports
    \cup MixedReports

\* JSON objects a text may embed.
EmbeddedObjects ==
    {JsonStringify(v) :
        v \in {Obj(<<>>),
               Obj(<< <<KScore, IntV(85)>> >>),
               Obj(<< <<KSummary, Str(<<"a", "{", "b", "}">>)>>,
                      <<KFacets, Obj(<< <<KJisok, IntV(7)>> >>)>> >>)}}

PrefixChars == {"H", " ", "{", "}"}
TagChars == {"j", "N", "5"}
WsChars == {" ", "\n"}

\* Conversational prefixes, bare and after an opening fence.
Prefixes ==
    LET P == SeqsUpTo(PrefixChars, MaxPrefix) \ {<<>>}
    IN P \cup {Fence \o q : q \in P}

PrefixedTexts == {P \o J : P \in Prefixes, J \in EmbeddedObjects}

Tags == SeqsUpTo(TagChars, MaxTag)
WsRuns == SeqsUpTo(WsChars, MaxWs)

\* J in a fenced block with language tag L, whitespace lead before it and W after.
Fenced(lead, L, J, W) == lead \o Fence \o L \o <<"\n">> \o J \o Fence \o W

FencedTexts ==
    {Fenced(lead, L, J, W) : lead \in {<<>>, <<" ">>}, L \in Tags,
                             J \in EmbeddedObjects, W \in WsRuns}

JunkTexts ==
    {<<>>, <<"}">>, <<"{">>, <<"o", "k">>, <<"{", "}", "}">>, <<"{", "}", " ", "H">>,
     Fence, <<"{", Quote, "a", Quote, ":", "}">>}

\* Every text the model's envelope may carry.
ProviderTexts ==
    {JsonStringify(v) : v \in ReportValues} \cup PrefixedTexts \cup FencedTexts
    \cup JunkTexts

\* An envelope whose first part is part.
EnvelopeOf(part) ==
    Obj(<< <<KCandidates,
             Arr(<<Obj(<< <<KContent, Obj(<< <<KParts, Arr(<<part>>)>> >>)>> >>)>>)>> >>)

Envelopes ==
    {EnvelopeOf(Obj(<< <<KText, Str(t)>> >>)) : t \in ProviderTexts}
    \cup {Obj(<<>>),
          Null,
          Obj(<< <<KCandidates, Arr(<<>>)>> >>),
          EnvelopeOf(Obj(<<>>)),
          EnvelopeOf(Obj(<< <<KText, Null>> >>)),
          EnvelopeOf(Obj(<< <<KText, Str(<<>>)>> >>)),
          EnvelopeOf(Obj(<< <<KText, IntV(0)>> >>)),
          EnvelopeOf(Obj(<< <<KInlineData, Obj(<< <<KData, Str(<<"{", "}">>)>> >>)>> >>))}

\* Bodies of the provider's non-success responses.
ErrorBodies == {<<>>, <<"q", "u", "o", "t", "a">>, <<"{", "}">>}

\* What the outbound fetch may settle with, short of an abort.
FetchOutcomes ==
    {FetchRejected}
    \cup {FetchResponse(st, b) : st \in {429, 503}, b \in ErrorBodies}
    \cup {FetchResponse(200, <<"<", "h", ">">>)}
    \cup {FetchResponse(200, JsonStringify(e)) : e \in Envelopes}

----------------------------------------------------------------------------
(* POST *)

\* AnalysisPage as first rendered: empty fields, nothing loading or shown.
PageInit ==
    /\ manBirth = <<>>
    /\ womanBirth = <<>>
    /\ manMbti = <<>>
    /\ womanMbti = <<>>
    /\ loading = FALSE
    /\ data = Null
    /\ error = Null
    /\ inflight = 0
    /\ submits = 0

Init ==
    /\ PageInit
    /\ apiKey \in BOOLEAN
    /\ reqBody \in RequestBodies
    /\ pc = "start"
    /\ calls = 0
    /\ fetch1 = "none"
    /\ fetch2 = "none"
    /\ to = "unset"
    /\ to2 = "unset"
    /\ aborted1 = FALSE
    /\ aborted2 = FALSE
    /\ ret = NoRet
    /\ text = <<>>
    /\ parsed = Undefined
    /\ resp = NoResp

\* The handler returns r without having called out.
ReplyEarly(r) ==
    /\ resp' = r
    /\ pc' = "done"
    /\ UNCHANGED <<apiKey, reqBody, calls, fetch1, fetch2, to, to2, aborted1, aborted2,
                   ret, text, parsed>>

\* POST from its entry to the first await of callGemini.
Receive ==
    /\ UNCHANGED uiVars
    /\ pc = "start"
    /\ IF ~apiKey THEN ReplyEarly(RespError(500, MsgNoKey))
       ELSE IF Throws(reqBody) THEN ReplyEarly(CatchAll(MsgBodySyntax))
       ELSE IF Throws(GetStrict(reqBody, KTopic)) THEN ReplyEarly(CatchAll(MsgNullRead))
       ELSE IF MissingRequired(reqBody) THEN ReplyEarly(RespError(400, MsgMissing))
       ELSE /\ to' = "armed"
            /\ calls' = calls + 1
            /\ fetch1' = "pending"
            /\ pc' = "await1"
            /\ UNCHANGED <<apiKey, reqBody, fetch2, to2, aborted1, aborted2,
                           ret, text, parsed, resp>>

\* The first attempt returned r: finally clearTimeout(to), then the parse
\* stages and the response, f.
Succeed1(r, f) ==
    /\ fetch1' = "ok"
    /\ ret' = r
    /\ text' = r.text
    /\ to' = ClearTimeout(to)
    /\ parsed' = f.parsed
    /\ resp' = f.resp
    /\ pc' = "done"
    /\ UNCHANGED <<apiKey, reqBody, calls, fetch2, to2, aborted1, aborted2>>

\* catch (e1): a new controller and timer, and the second callGemini.
Retry(r) ==
    /\ fetch1' = "failed"
    /\ ret' = r
    /\ to2' = "armed"
    /\ calls' = calls + 1
    /\ fetch2' = "pending"
    /\ pc' = "await2"
    /\ UNCHANGED <<apiKey, reqBody, text, parsed, resp, aborted2>>

\* The second attempt returned: both finally blocks, then the parse stages.
Succeed2(r, f) ==
    /\ fetch2' = "ok"
    /\ ret' = r
    /\ text' = r.text
    /\ to2' = ClearTimeout(to2)
    /\ to' = ClearTimeout(to)
    /\ parsed' = f.parsed
    /\ resp' = f.resp
    /\ pc' = "done"
    /\ UNCHANGED <<apiKey, reqBody, calls, fetch1, aborted1, aborted2>>

\* The second attempt threw: both finally blocks, then the outer catch.
GiveUp(r) ==
    /\ fetch2' = "failed"
    /\ ret' = r
    /\ to2' = ClearTimeout(to2)
    /\ to' = ClearTimeout(to)
    /\ resp' = CatchAll(r.msg)
    /\ pc' = "done"
    /\ UNCHANGED <<apiKey, reqBody, calls, fetch1, text, parsed, aborted1, aborted2>>

\* An empty text from the first call treated as a failure and retried.
Settle1RetryEmpty(r) ==
    IF r.ok /\ r.text # <<>> THEN Succeed1(r, Finish(r.text))
    ELSE Retry(r) /\ UNCHANGED <<to, aborted1>>

\* try { text = await callGemini(...) } catch (e1) { ...retry... }, with r what
\* the first call settled with.
Settle1(r) ==
    IF r.ok THEN Succeed1(r, Finish(r.text))
    ELSE Retry(r) /\ UNCHANGED <<to, aborted1>>

\* The second failure answered by one more attempt instead of giving up.
Settle2Again(r) ==
    IF r.ok THEN Succeed2(r, Finish(r.text))
    ELSE /\ ret' = r
         /\ calls' = calls + 1
         /\ UNCHANGED <<apiKey, reqBody, pc, fetch1, fetch2, to, to2, aborted1, aborted2,
                        text, parsed, resp>>

\* try { text = await callGemini(...) } finally { ... }, with r what the second
\* call settled with.
Settle2(r) == IF r.ok THEN Succeed2(r, Finish(r.text)) ELSE GiveUp(r)

\* The first callGemini settles with the provider's answer.
Respond1 ==
    /\ UNCHANGED uiVars
    /\ pc = "await1"
    /\ ~aborted1
    /\ \E o \in FetchOutcomes : Settle1(callGemini(o))

\* The second callGemini settles with the provider's answer.
Respond2 ==
    /\ UNCHANGED uiVars
    /\ pc = "await2"
    /\ ~aborted2
    /\ \E o \in FetchOutcomes : Settle2(callGemini(o))

\* The first timer fires: controller.abort().  A pending first call rejects
\* and the catch block starts the retry; after that the abort reaches nothing.
Timeout1 ==
    /\ UNCHANGED uiVars
    /\ to = "armed"
    /\ to' = "fired"
    /\ aborted1' = TRUE
    /\ \/ /\ pc = "await1"
          /\ Retry(Thrown(MsgAborted))
       \/ /\ pc = "await2"
          /\ UNCHANGED <<apiKey, reqBody, pc, calls, fetch1, fetch2, to2, aborted2,
                         ret, text, parsed, resp>>

\* The second timer fires without aborting anything.
Timeout2NoAbort ==
    /\ UNCHANGED uiVars
    /\ to2 = "armed"
    /\ to # "armed"
    /\ pc = "await2"
    /\ to2' = "fired"
    /\ UNCHANGED <<apiKey, reqBody, pc, calls, fetch1, fetch2, to, aborted1, aborted2,
                   ret, text, parsed, resp>>

\* The second timer fires: controller2.abort(), and the pending second call
\* rejects.  Both timers run 20 s, so the first, set earlier, is not still
\* armed when the second fires.
Timeout2 ==
    /\ UNCHANGED uiVars
    /\ to2 = "armed"
    /\ to # "armed"
    /\ pc = "await2"
    /\ aborted2' = TRUE
    /\ fetch2' = "failed"
    /\ ret' = Thrown(MsgAborted)
    /\ to2' = "fired"
    /\ to' = ClearTimeout(to)
    /\ resp' = CatchAll(MsgAborted)
    /\ pc' = "done"
    /\ UNCHANGED <<apiKey, reqBody, calls, fetch1, text, parsed, aborted1>>

Next == Receive \/ Respond1 \/ Respond2 \/ Timeout1 \/ Timeout2

\* The handler has returned a 200 response.
Returned200 == pc = "done" /\ resp.status = 200

Spec == Init /\ [][Next]_vars

\* The handler runs when a request arrives, and a timer that is set fires
\* unless it is cleared; the provider need not ever answer.
FairSpec ==
    /\ Spec
    /\ WF_vars(Receive)
    /\ WF_vars(Timeout1)
    /\ WF_vars(Timeout2)

----------------------------------------------------------------------------
(* AnalysisPage: the form, handleSubmit and what it stores *)

KError == <<"e", "r", "r", "o", "r">>
KDetail == <<"d", "e", "t", "a", "i", "l">>

MsgFailedToFetch == <<"Failed to fetch">>
MsgAiError == <<"AI analysis failed">>
MsgUnknown == <<"unknown error">>
MsgNullJson == <<"Cannot read properties of null (reading 'error')">>

\* The message built from the status when the body text is empty.
MsgApiError(status) == <<"API ">> \o NatToStr(status) \o <<" error">>

\* function clampScore(v, min, max, fallback), with n = Number(v): the
\* fallback on NaN, else the value clamped, not rounded.
ClampScoreOf(n, min, max, fallback) ==
    CASE n.k = "nan" -> IntV(fallback)
      [] n.k = "inf" -> IntV(IF n.sg > 0 THEN max ELSE min)
      [] n.k = "fin" ->
            IF n.n > max * Pow10(n.e) THEN IntV(max)
            ELSE IF n.n < min * Pow10(n.e) THEN IntV(min)
            ELSE Num(n.n, n.e)

clampScore(v, min, max, fallback) == ClampScoreOf(ToNumber(v), min, max, fallback)

\* const base of normalizeFacets.
FacetBase(k) ==
    CASE k = KJeongseo -> 80
      [] k = KSotong -> 80
      [] k = KHyeonsil -> 70
      [] k = KSeongjang -> 90
      [] k = KJisok -> 80

\* function normalizeFacets(facets)
normalizeFacets(facets) ==
    IF ~Truthy(facets) THEN Obj([i \in 1..5 |-> <<FacetKeys[i], IntV(FacetBase(FacetKeys[i]))>>])
    ELSE Obj([i \in 1..5 |->
                <<FacetKeys[i],
                  clampScore(Get(facets, FacetKeys[i]), 0, 100, FacetBase(FacetKeys[i]))>>])

\* The own enumerable properties an object spread copies from v.
Spread(v) ==
    CASE v.t = "obj" -> v.m
      [] v.t = "arr" -> [i \in 1..Len(v.a) |-> <<NatToStr(i - 1), v.a[i]>>]
      [] v.t = "str" -> [i \in 1..Len(v.s) |-> <<NatToStr(i - 1), Str(<<v.s[i]>>)>>]
      [] OTHER -> <<>>

\* { ...json, score, facets }
StoredData(json) ==
    Obj(Put(Put(Spread(json), KScore, clampScore(Get(json, KScore), 30, 98, 80)),
            KFacets, normalizeFacets(Get(json, KFacets))))

\* How the try block of handleSubmit ends: with the data to store, or with
\* the message of what was thrown.
Stored(d) == [ok |-> TRUE, data |-> d, msg |-> Undefined]
Threw(m) == [ok |-> FALSE, data |-> Null, msg |-> m]

\* From const json = await res.json(), which gave j, to setData.
FromJson(body, j) ==
    IF ~j.ok THEN Threw(Str(SyntaxErrorMessage(body, j.i)))
    ELSE IF j.v.t = "null" THEN Threw(Str(MsgNullJson))
    ELSE IF Truthy(Get(j.v, KError))
    THEN Threw(Str(ToStr(OrElse(Get(j.v, KDetail), Str(MsgAiError)))))
    ELSE Stored(StoredData(j.v))

\* The try block of handleSubmit from the await of fetch, which settles with o.
Settled(o) ==
    IF o.kind = "reject" THEN Threw(Str(MsgFailedToFetch))
    ELSE IF ~ResOk(o)
    THEN Threw(Str(IF o.body # <<>> THEN o.body ELSE MsgApiError(o.status)))
    ELSE FromJson(o.body, JsonParse(o.body))

\* err?.message ?? (the unknown-error literal)
ErrorShown(r) == Nullish(r.msg, Str(MsgUnknown))

MaxSubmits == 3     \* submit events in one run

\* What a required field may hold.
FieldTexts == {<<>>, <<"x">>}

\* The error envelope of the route.
EnvelopeError(detail) == Obj(<< <<KError, Bool(TRUE)>>, <<KDetail, detail>> >>)

\* JSON bodies the page may receive.
PageBodies ==
    NumericReports
    \cup {normalizeOutput(v) : v \in MixedReports}
    \cup {Null, IntV(5), Bool(TRUE), Str(<<"a", "b">>), Arr(<<IntV(1)>>), Obj(<<>>),
          Obj(<< <<KFacets, Str(<<"a">>)>> >>),
          Obj(<< <<KError, Bool(FALSE)>>, <<KScore, IntV(50)>> >>),
          Obj(<< <<KError, Str(<<"e">>)>> >>),
          Obj(<< <<KError, Bool(TRUE)>> >>),
          EnvelopeError(Str(MsgParseFail)),
          EnvelopeError(Str(<<>>)),
          EnvelopeError(IntV(7))}

\* What the page's fetch may settle with.
PageOutcomes ==
    {FetchRejected, FetchResponse(200, <<"<">>), FetchResponse(200, <<>>)}
    \cup {FetchResponse(200, JsonStringify(v)) : v \in PageBodies}
    \cup {FetchResponse(st, b) :
            st \in {400, 500},
            b \in {<<>>, JsonStringify(EnvelopeError(Str(MsgMissing)))}}

\* const canSubmit = Boolean(manBirth && womanBirth && manMbti && womanMbti)
canSubmit == manBirth # <<>> /\ womanBirth # <<>> /\ manMbti # <<>> /\ womanMbti # <<>>

\* onChange of the four required inputs.
SetManBirth ==
    /\ \E v \in FieldTexts : manBirth' = v
    /\ UNCHANGED <<handlerVars, womanBirth, manMbti, womanMbti, loading, data, error,
                   inflight, submits>>

SetWomanBirth ==
    /\ \E v \in FieldTexts : womanBirth' = v
    /\ UNCHANGED <<handlerVars, manBirth, manMbti, womanMbti, loading, data, error,
                   inflight, submits>>

SetManMbti ==
    /\ \E v \in FieldTexts : manMbti' = v
    /\ UNCHANGED <<handlerVars, manBirth, womanBirth, womanMbti, loading, data, error,
                   inflight, submits>>

SetWomanMbti ==
    /\ \E v \in FieldTexts : womanMbti' = v
    /\ UNCHANGED <<handlerVars, manBirth, womanBirth, manMbti, loading, data, error,
                   inflight, submits>>

\* handleSubmit with the test of loading left out.
SubmitWhileLoading ==
    /\ submits < MaxSubmits
    /\ submits' = submits + 1
    /\ IF ~canSubmit THEN UNCHANGED <<loading, data, error, inflight>>
       ELSE /\ loading' = TRUE
            /\ error' = Null
            /\ data' = Null
            /\ inflight' = inflight + 1
    /\ UNCHANGED <<handlerVars, manBirth, womanBirth, manMbti, womanMbti>>

\* async function handleSubmit(e), from the submit event to the await of fetch.
handleSubmit ==
    /\ submits < MaxSubmits
    /\ submits' = submits + 1
    /\ IF ~canSubmit \/ loading THEN UNCHANGED <<loading, data, error, inflight>>
       ELSE /\ loading' = TRUE
            /\ error' = Null
            /\ data' = Null
            /\ inflight' = inflight + 1
    /\ UNCHANGED <<handlerVars, manBirth, womanBirth, manMbti, womanMbti>>

\* The rest of handleSubmit once the try block ended with r: setData or the
\* catch's setError, then finally setLoading(false).
Finished(r) ==
    /\ data' = (IF r.ok THEN r.data ELSE data)
    /\ error' = (IF r.ok THEN error ELSE ErrorShown(r))
    /\ loading' = FALSE
    /\ inflight' = inflight - 1
    /\ UNCHANGED <<handlerVars, manBirth, womanBirth, manMbti, womanMbti, submits>>

\* The request in flight settles.
SubmitSettles ==
    /\ inflight > 0
    /\ \E o \in PageOutcomes : Finished(Settled(o))

\* The page alone, with the route handler idle.
PageStart ==
    /\ PageInit
    /\ apiKey = TRUE
    /\ reqBody = Undefined
    /\ pc = "start"
    /\ calls = 0
    /\ fetch1 = "none"
    /\ fetch2 = "none"
    /\ to = "unset"
    /\ to2 = "unset"
    /\ aborted1 = FALSE
    /\ aborted2 = FALSE
    /\ ret = NoRet
    /\ text = <<>>
    /\ parsed = Undefined
    /\ resp = NoResp

PageNext ==
    \/ SetManBirth
    \/ SetWomanBirth
    \/ SetManMbti
    \/ SetWomanMbti
    \/ handleSubmit
    \/ SubmitSettles

PageSpec == PageStart /\ [][PageNext]_vars

----------------------------------------------------------------------------
(* Claims *)

\* The keys of an object value, as a set.
KeysOf(o) == {o.m[i][1] : i \in 1..Len(o.m)}

IsInteger(v, lo, hi) == v.t = "num" /\ v.e = 0 /\ v.n >= lo /\ v.n <= hi

\* The bounds of a NormalizedReport, as the contract states them.
InContract(b) ==
    /\ b.t = "obj"
    /\ KeysOf(b) = {KScore, KFacets, KSummary, KInsights, KOneliner, KExplanation}
    /\ IsInteger(Get(b, KScore), 30, 98)
    /\ Get(b, KFacets).t = "obj"
    /\ Len(Get(b, KFacets).m) = 5
    /\ KeysOf(Get(b, KFacets)) = {KJeongseo, KSotong, KHyeonsil, KSeongjang, KJisok}
    /\ \A k \in KeysOf(Get(b, KFacets)) : IsInteger(Get(Get(b, KFacets), k), 0, 100)
    /\ Get(b, KSummary).t = "str"
    /\ Len(Get(b, KSummary).s) <= 400
    /\ Get(b, KInsights).t = "arr"
    /\ Len(Get(b, KInsights).a) <= 3
    /\ \A i \in 1..Len(Get(b, KInsights).a) : Get(b, KInsights).a[i].t = "str"
    /\ Get(b, KOneliner).t = "str"
    /\ Len(Get(b, KOneliner).s) <= 80
    /\ Get(b, KExplanation).t = "obj"
    /\ Len(Get(b, KExplanation).m) = 5
    /\ KeysOf(Get(b, KExplanation)) = {KJeongseo, KSotong, KHyeonsil, KSeongjang, KJisok}
    /\ \A k \in KeysOf(Get(b, KExplanation)) : Get(Get(b, KExplanation), k).t = "str"

\* C1: whatever JSON value the parse stage hands to normalizeOutput (null, a
\* non-object, an empty object, fields absent, null, wrong-typed or out of
\* range), normalizeOutput returns without throwing, the request ends with
\* status 200, and the body is in contract: score an integer in [30,98],
\* exactly the five facets each an integer in [0,100], summary of length
\* <= 400, at most 3 insights, all strings, oneliner of length <= 80, and exactly
\* the five explanation strings.
C1_NormalizedInContract ==
    (pc = "done" /\ parsed.t # "undefined")
        => (resp.status = 200 /\ InContract(resp.body))

\* C1's case: a report whose score and facets are 101.5 was normalized to
\* score 98 and facets 100.
C1_Witness ==
    /\ Returned200
    /\ Get(parsed, KScore) = Num(1015, 1)
    /\ Get(resp.body, KScore) = IntV(98)
    /\ Get(Get(resp.body, KFacets), KJisok) = IntV(100)

\* C2: callGemini is invoked at most twice per request; a first success means
\* no second invocation; after a first failure and a second success the
\* pipeline runs on the second invocation's text; after two failures the
\* request ends with a 500 error response; and once the handler has returned
\* no step (so no outbound call) is left.
C2_RetryAtMostOnce ==
    /\ calls \in 0..2
    /\ fetch1 = "ok" => (calls = 1 /\ fetch2 = "none")
    /\ fetch2 # "none" => (calls = 2 /\ fetch1 = "failed")
    /\ (fetch1 = "failed" /\ fetch2 = "ok")
          => (pc = "done" /\ ret.ok /\ text = ret.text /\ resp = Finish(ret.text).resp)
    /\ (fetch1 = "failed" /\ fetch2 = "failed")
          => (pc = "done" /\ ~ret.ok /\ resp.status = 500 /\ resp.error)
    /\ pc = "done" => ~ENABLED Next

\* C2's case: the first invocation failed, the second returned a text, and the
\* request ended 200 on it.
C2_Witness ==
    /\ fetch1 = "failed"
    /\ fetch2 = "ok"
    /\ calls = 2
    /\ Returned200
    /\ text # <<>>

\* At least one of the four required fields of a request body is missing or
\* empty.
FieldMissing(b) ==
    /\ b.t = "obj"
    /\ \E k \in {KManBirth, KWomanBirth, KManMbti, KWomanMbti} :
          Get(b, k) \in {Undefined, Null, Str(<<>>)}

C4_Original ==
    (pc = "done" /\ ret.ok) =>
    \A P \in Prefixes, J \in EmbeddedObjects :
        (text = P \o J /\ ~JsonParse(P \o J).ok)
            => /\ parsed = JsonParse(J).v
               /\ ~JsonParse(sanitizeJson(text)).ok
                     => FallbackParse(sanitizeJson(text)) = Parsed(JsonParse(J).v)

\* C4 as amended: the same, for every prefix P that contains no opening brace
\* (the match starts at the first opening brace of the text).
C4_RecoveryParse ==
    (pc = "done" /\ ret.ok) =>
    \A P \in Prefixes, J \in EmbeddedObjects :
        (text = P \o J /\ ~JsonParse(P \o J).ok
           /\ \A i \in 1..Len(P) : P[i] # "{")
            => /\ parsed = JsonParse(J).v
               /\ resp.status = 200
               /\ ~JsonParse(sanitizeJson(text)).ok
                     => FallbackParse(sanitizeJson(text)) = Parsed(JsonParse(J).v)

\* C4's case: "H " before an object with a nested object; the strict tier
\* failed and the fallback tier gave the object.
C4_Witness ==
    \E J \in EmbeddedObjects :
        /\ Len(J) > 20
        /\ text = <<"H", " ">> \o J
        /\ Returned200
        /\ ~JsonParse(sanitizeJson(text)).ok
        /\ parsed = JsonParse(J).v
        /\ parsed.t = "obj"

\* C5 as claimed: for every language tag L, whitespace W and JSON object J,
\* sanitizeJson of J in a fenced block (fence, L, newline, J, fence, W) is
\* accepted by strict JSON parsing and decodes to the same value as J.
C5_Original ==
    (pc = "done" /\ ret.ok) =>
    \A lead \in {<<>>, <<" ">>}, L \in Tags, J \in EmbeddedObjects, W \in WsRuns :
        (text = Fenced(lead, L, J, W))
            => /\ JsonParse(sanitizeJson(text)).ok
               /\ JsonParse(sanitizeJson(text)).v = JsonParse(J).v

\* C5 as amended: the same, for every language tag L made of ASCII letters
\* only (the empty tag included).
C5_SanitizerRoundTrip ==
    (pc = "done" /\ ret.ok) =>
    \A lead \in {<<>>, <<" ">>}, L \in Tags, J \in EmbeddedObjects, W \in WsRuns :
        (text = Fenced(lead, L, J, W)
           /\ \A i \in 1..Len(L) : L[i] \in Letters)
            => /\ JsonParse(sanitizeJson(text)).ok
               /\ JsonParse(sanitizeJson(text)).v = JsonParse(J).v
               /\ parsed = JsonParse(J).v

\* C5's case: an object fenced with the tag "jN", a space before and a newline
\* after, was parsed strictly.
C5_Witness ==
    \E J \in EmbeddedObjects :
        /\ Len(J) > 20
        /\ text = Fenced(<<" ">>, <<"j", "N">>, J, <<"\n">>)
        /\ Returned200
        /\ sanitizeJson(text) = J
        /\ parsed = JsonParse(J).v

\* C6: normalizeOutput applied to a normalized report returns that report,
\* field for field.
C6_Idempotent ==
    Returned200 => normalizeOutput(resp.body) = resp.body

\* C6's case: a summary one over the cap was cut to the cap, and normalizing
\* the result again changes nothing.
C6_Witness ==
    /\ Returned200
    /\ Get(parsed, KSummary).t = "str"
    /\ Len(Get(parsed, KSummary).s) = 401
    /\ Len(Get(resp.body, KSummary).s) = 400
    /\ normalizeOutput(resp.body) = resp.body

\* The integer nearest to n / 10^e, halves upward.
C7_Nearest(n, e) ==
    CHOOSE k \in -1000..1000 :
        /\ (2 * k - 1) * Pow10(e) <= 2 * n
        /\ 2 * n < (2 * k + 1) * Pow10(e)

C7_Within(k, min, max) == IF k < min THEN min ELSE IF k > max THEN max ELSE k

\* Rounded and clamped, for a coercion result that is not NaN.
C7_RoundClamp(c, min, max) ==
    IF c.k = "inf" THEN (IF c.sg > 0 THEN max ELSE min)
    ELSE C7_Within(C7_Nearest(c.n, c.e), min, max)

\* Not a number, as the claim lists it: absent, null, boolean, empty or
\* non-numeric string, array, object.
C7_NotANumber(v) ==
    \/ v.t \in {"undefined", "null", "bool", "arr", "obj"}
    \/ v.t = "str" /\ (Trim(v.s) = <<>> \/ StringToNumber(v.s).k = "nan")

C7_Claimed(v, d, min, max) ==
    IF C7_NotANumber(v) THEN d ELSE C7_RoundClamp(ToNumber(v), min, max)

\* What the field is normalized to, by the type of the value.
C7_Expected(v, d, min, max) ==
    CASE v.t \in {"undefined", "obj"} -> d
      [] v.t = "null" -> C7_Within(0, min, max)
      [] v.t = "bool" -> C7_Within(IF v.b THEN 1 ELSE 0, min, max)
      [] v.t = "num" -> C7_Within(C7_Nearest(v.n, v.e), min, max)
      [] v.t \in {"str", "arr"} ->
            IF Trim(ToStr(v)) = <<>> THEN C7_Within(0, min, max)
            ELSE IF StringToNumber(ToStr(v)).k = "nan" THEN d
            ELSE C7_RoundClamp(StringToNumber(ToStr(v)), min, max)

C7_FacetDefaults == <<80, 80, 70, 90, 80>>

\* C7 as claimed: a score that is absent or not a number (null, boolean, empty
\* or non-numeric string, array, object) is normalized to 80, any other to the
\* value rounded and clamped to [30,98]; each facet likewise with [0,100] and
\* the defaults 80, 80, 70, 90, 80.
C7_Original ==
    Returned200
        => /\ Get(resp.body, KScore) = IntV(C7_Claimed(Get(parsed, KScore), 80, 30, 98))
           /\ \A i \in 1..5 :
                 Get(Get(resp.body, KFacets), FacetKeys[i])
                    = IntV(C7_Claimed(Get(Get(parsed, KFacets), FacetKeys[i]),
                                      C7_FacetDefaults[i], 0, 100))

\* C7 as amended: the score is normalized to 80 exactly when Number(score) is
\* NaN, that is when it is absent, an object, a non-numeric string or an array
\* whose string form is non-numeric; null, false, a blank string and the empty
\* array count as 0, true as 1, a numeric string or an array with a numeric
\* string form as that number, and these, like numbers, are rounded and clamped
\* to [30,98] (null gives 30); each facet likewise with [0,100] and the
\* defaults 80, 80, 70, 90, 80.
C7_DefaultOnNaN ==
    Returned200
        => /\ Get(resp.body, KScore) = IntV(C7_Expected(Get(parsed, KScore), 80, 30, 98))
           /\ \A i \in 1..5 :
                 Get(Get(resp.body, KFacets), FacetKeys[i])
                    = IntV(C7_Expected(Get(Get(parsed, KFacets), FacetKeys[i]),
                                       C7_FacetDefaults[i], 0, 100))

\* C7's case: score and facets are null; the score came out 30 and the facets
\* 0, not the defaults.
C7_Witness ==
    /\ Returned200
    /\ parsed.t = "obj"
    /\ Get(parsed, KScore) = Null
    /\ Get(Get(parsed, KFacets), KHyeonsil) = Null
    /\ Get(resp.body, KScore) = IntV(30)
    /\ Get(Get(resp.body, KFacets), KHyeonsil) = IntV(0)

\* The details that do not depend on what the provider sent.
C8_GenericDetails == {MsgParseFail, MsgServerError, MsgFetchFailed, MsgAborted}

\* C8: whenever the request ends in a terminal error (both attempts failed, or
\* neither parse tier succeeded), the response is 500 with error true and a
\* detail that is a generic message, independent of the provider's text.
C8_NoProviderText ==
    (pc = "done" /\ (fetch2 = "failed" \/ (ret.ok /\ parsed.t = "undefined")))
        => /\ resp.status = 500
           /\ resp.error
           /\ resp.detail \in C8_GenericDetails

\* C9: the second attempt is pending only after the first has failed, and
\* while it is pending the first attempt's timer is no longer armed.
C9_FirstTimerReleased ==
    fetch2 = "pending" => (fetch1 = "failed" /\ to # "armed")

\* Envelopes of a success response that carry no text payload.
C10_Textless ==
    {Obj(<<>>),
     Obj(<< <<KCandidates, Arr(<<>>)>> >>),
     EnvelopeOf(Obj(<<>>)),
     EnvelopeOf(Obj(<< <<KText, Null>> >>)),
     EnvelopeOf(Obj(<< <<KText, Str(<<>>)>> >>))}

\* C10: on a success status with an envelope that has no text, callGemini
\* returns the empty string without failing; a retry is made only after a
\* thrown failure, so an empty first text means exactly one invocation; the
\* empty text ends the request with the 500 parse-failure response; and a
\* parse failure in either tier leaves the number of invocations as it was,
\* with no step left.
C10_MissingTextDeferred ==
    /\ C10_Textless \subseteq Envelopes
    /\ \A e \in C10_Textless :
          callGemini(FetchResponse(200, JsonStringify(e))) = Returned(<<>>)
    /\ pc = "await2" => ~ret.ok
    /\ (pc = "done" /\ ret.ok /\ ret.text = <<>>)
          => (resp = RespError(500, MsgParseFail) /\ parsed.t = "undefined")
    /\ (pc = "done" /\ ret.ok /\ parsed.t = "undefined")
          => /\ resp.status = 500
             /\ resp.error
             /\ calls = (IF fetch1 = "ok" THEN 1 ELSE 2)
             /\ fetch2 = (IF fetch1 = "ok" THEN "none" ELSE "ok")
             /\ ~ENABLED Next

\* C10's case: the first call returned the empty string; one invocation, and
\* the 500 parse-failure response.
C10_Witness ==
    /\ pc = "done"
    /\ fetch1 = "ok"
    /\ ret = Returned(<<>>)
    /\ calls = 1
    /\ fetch2 = "none"
    /\ resp = RespError(500, MsgParseFail)

\* The provider has not answered: no attempt returned, and each attempt that
\* failed was aborted by its controller.
C11_Silent ==
    /\ fetch1 # "ok"
    /\ fetch2 # "ok"
    /\ fetch1 = "failed" => aborted1
    /\ fetch2 = "failed" => aborted2
    /\ pc = "await2" => ret = Thrown(MsgAborted)

\* The request ended on the second timeout, after two attempts.
C11_TimedOut ==
    /\ pc = "done"
    /\ calls = 2
    /\ fetch1 = "failed"
    /\ fetch2 = "failed"
    /\ aborted1
    /\ aborted2
    /\ to = "fired"
    /\ to2 = "fired"
    /\ resp = RespError(500, MsgAborted)

\* C11: if the provider never answers an accepted request, the first attempt
\* is aborted by the first controller and the retry by the second only, each
\* abort fails its attempt, and the request ends 500 after exactly two
\* attempts; and with timers that fire, every request eventually gets a
\* response, of status 200, 400 or 500, which is never replaced by another.
C11_TimeoutTermination ==
    /\ ([]C11_Silent) => <>(pc = "done" /\ (calls > 0 => C11_TimedOut))
    /\ [](to = "fired" => aborted1 /\ fetch1 = "failed")
    /\ [](to2 = "fired" => aborted2 /\ fetch2 = "failed" /\ pc = "done")
    /\ [](aborted2 => aborted1 /\ fetch1 = "failed" /\ pc = "done")
    /\ [](pc = "await2" /\ aborted1 /\ ~aborted2 => fetch2 = "pending")
    /\ <>(pc = "done" /\ resp.status \in {200, 400, 500})
    /\ [](pc = "done" => [](pc = "done" /\ resp.status \in {200, 400, 500}))
    /\ [][resp # NoResp => resp' = resp]_vars

\* C11's case: both attempts were aborted by their timers and the request
\* ended 500.
C11_Witness == C11_TimedOut

\* v is a number of the closed range from lo to hi.
C12_InRange(v, lo, hi) ==
    v.t = "num" /\ lo * Pow10(v.e) <= v.n /\ v.n <= hi * Pow10(v.e)

\* Stored data has its score in [30,98] and its five facets in [0,100].
C12_DataInRange(d) ==
    /\ d.t = "obj"
    /\ C12_InRange(Get(d, KScore), 30, 98)
    /\ Get(d, KFacets).t = "obj"
    /\ Len(Get(d, KFacets).m) = 5
    /\ \A i \in 1..5 : C12_InRange(Get(Get(d, KFacets), FacetKeys[i]), 0, 100)

C12_AnyEmpty == manBirth = <<>> \/ womanBirth = <<>> \/ manMbti = <<>> \/ womanMbti = <<>>

\* C12: a submit while loading is true or a required field is empty sends no
\* request and changes no state, so the page never has two requests in
\* flight; an accepted submit sets loading and clears data and error; and when
\* the request settles, on any path, loading is false and exactly one of data
\* and error is non-null, stored data having its score in [30,98] and every
\* facet in [0,100].
C12_SubmitLifecycle ==
    /\ [](inflight \in {0, 1} /\ (loading <=> inflight = 1))
    /\ [](loading => data.t = "null" /\ error.t = "null")
    /\ [](data.t # "null" => error.t = "null" /\ C12_DataInRange(data))
    /\ [](error.t # "null" => error.t = "str")
    /\ [][(submits' # submits /\ (loading \/ C12_AnyEmpty))
            => UNCHANGED <<loading, data, error, inflight,
                           manBirth, womanBirth, manMbti, womanMbti>>]_vars
    /\ [][(submits' # submits /\ ~loading /\ ~C12_AnyEmpty)
            => (loading' /\ data'.t = "null" /\ error'.t = "null"
                /\ inflight' = inflight + 1)]_vars
    /\ [][inflight' < inflight
            => (~loading' /\ inflight' = 0
                /\ (data'.t = "null") # (error'.t = "null"))]_vars

\* C12's case: a second or later submit was accepted, and its request settled
\* with a report whose score and facets were out of range, stored clamped to
\* 98 and 100.
C12_Witness ==
    /\ submits >= 2
    /\ ~loading
    /\ inflight = 0
    /\ error.t = "null"
    /\ Get(data, KScore) = IntV(98)
    /\ Get(Get(data, KFacets), KJisok) = IntV(100)

====
